---------------------------- MODULE Spec2Model ----------------------------
(***************************************************************************)
(* A model of four pieces of the skywire node:                             *)
(*   - the bbolt-backed application log store (package app),               *)
(*   - the public-key translation tables (package snet),                   *)
(*   - the TCP transport factory (package snet),                           *)
(*   - the mock router / executer the node tests drive (package node).     *)
(* Each piece has its own specification over its own variables; the        *)
(* variables of the other pieces stay at their initial value.              *)
(***************************************************************************)
EXTENDS Integers, Sequences, FiniteSets, TLC

VARIABLES
    db,         \* log store: the bucket, a function from key bytes to value
    stored,     \* log store: the Store calls made so far, a set of [t, s]
    logs,       \* log store: the last LogsSince call, [called, t, out, of]
    tbl,        \* key table: the table constructed, [state, by, src, entries, reverse]
    call,       \* key table: the last lookup on the table, [op, arg, res]
    conns,      \* tcp: every connection of the factory's host, in order of creation
    lclosed,    \* tcp: the factory's listener is closed
    ctxDone,    \* tcp: the context handed to Accept and Dial is cancelled
    acc,        \* tcp: the caller of Accept, [pc, conn, tr, err]
    dial,       \* tcp: the caller of Dial, [pc, remote, conn, tr, err]
    ports,      \* node: mockRouter.ports
    didStart,   \* node: mockRouter.didStart
    didClose,   \* node: mockRouter.didClose
    errChan,    \* node: mockRouter.errChan, NilChan or a channel
    chans,      \* node: the channels made so far, each "open" or "closed"
    view,       \* node: per goroutine, the values of errChan an unlocked read may see
    panicked,   \* node: the process has panicked
    startedApps, \* node: Node.startedApps, app name -> [conn, port]
    exec,       \* node: the MockExecuter, [err, stopCh, cmds]
    procs,      \* node: the callers of SpawnApp / ServeApp, [pc, kind, app, port, ch, ret]
    closers,    \* node: the calls of Close, how many are [locking] and how many [done]
    startPc     \* node: the caller of Start, "idle", "serving" or "done"

logVars == <<db, stored, logs>>
tblVars == <<tbl, call>>
tcpVars == <<conns, lclosed, ctxDone, acc, dial>>
nodeVars == <<ports, didStart, didClose, errChan, chans, view, panicked,
              startedApps, exec, procs, closers, startPc>>

vars == <<logVars, tblVars, tcpVars, nodeVars>>

\* What the operations of one piece leave alone: the other pieces.
notLog == <<tblVars, tcpVars, nodeVars>>
notTbl == <<logVars, tcpVars, nodeVars>>
notTcp == <<logVars, tblVars, nodeVars>>
notNode == <<logVars, tblVars, tcpVars>>

(***************************************************************************)
(* LOG STORE                                                               *)
(***************************************************************************)

\* Number of nanoseconds in a second (the unit of time.Time's fraction).
NanosPerSec == 1000000000

\* The modelled instants are multiples of 1/TicksPerSec of a second ...
TicksPerSec == 4

\* ... from 2000-01-01T00:00:00Z up to MaxTick ticks later.
MaxTick == 5

\* At most this many Store calls are made.
MaxStores == 3

\* The instants, as a number of ticks after 2000-01-01T00:00:00Z (UTC); an
\* instant is earlier than another iff its number is smaller.
Times == 0..MaxTick

\* The seconds and the nanoseconds (time.Time's two fields) of an instant.
Second(t) == t \div TicksPerSec
Nanosecond(t) == (t % TicksPerSec) * (NanosPerSec \div TicksPerSec)

\* The log texts.
Texts == {"foo", "bar"}

\* ASCII codes used by the keys.
ChDot == 46
ChZero == 48
ChZed == 90

\* "2000-01-01T00:00:" : the fields of the layout that are the same for all
\* modelled instants (date, 'T', hour, minute).
KeyPrefix == <<50, 48, 48, 48, 45, 48, 49, 45, 48, 49, 84, 48, 48, 58, 48, 48, 58>>

\* Number of digits of the layout's fraction ".999999999".
FracDigits == 9

RECURSIVE TrimZeros(_)
\* The layout's 9s drop trailing zeros of the fraction.
TrimZeros(s) ==
    IF s = <<>> THEN s
    ELSE IF s[Len(s)] = ChZero THEN TrimZeros(SubSeq(s, 1, Len(s) - 1))
    ELSE s

\* t.Format(time.RFC3339Nano), layout "2006-01-02T15:04:05.999999999Z07:00",
\* for a UTC instant t within the minute after 2000-01-01T00:00:00Z, as bytes.
Format(t) ==
    LET sec   == Second(t)
        nsec  == Nanosecond(t)
        secs  == <<ChZero + (sec \div 10), ChZero + (sec % 10)>>
        digs  == [i \in 1..FracDigits |->
                     ChZero + ((nsec \div (10 ^ (FracDigits - i))) % 10)]
        frac  == IF nsec = 0 THEN <<>> ELSE <<ChDot>> \o TrimZeros(digs)
    IN  KeyPrefix \o secs \o frac \o <<ChZed>>

\* The key of every modelled instant.
KeyOf == [t \in Times |-> Format(t)]

RECURSIVE bytesCompare(_, _)
\* bytes.Compare: lexicographic comparison, -1, 0 or +1.
bytesCompare(a, b) ==
    IF a = <<>> /\ b = <<>> THEN 0
    ELSE IF a = <<>> THEN -1
    ELSE IF b = <<>> THEN 1
    ELSE IF Head(a) < Head(b) THEN -1
    ELSE IF Head(a) > Head(b) THEN 1
    ELSE bytesCompare(Tail(a), Tail(b))

RECURSIVE SortedKeys(_)
\* The keys of a bucket in the order a bbolt cursor walks them (bytewise).
SortedKeys(S) ==
    IF S = {} THEN <<>>
    ELSE LET m == CHOOSE k \in S : \A o \in S : bytesCompare(k, o) <= 0
         IN  <<m>> \o SortedKeys(S \ {m})

\* b.Put(key, value)
Put(b, k, v) == [x \in (DOMAIN b) \cup {k} |-> IF x = k THEN v ELSE b[x]]

\* c.Seek(key): the index (in cursor order) of the first key >= the sought one;
\* past the end when there is none.
Seek(keys, k) ==
    IF \E i \in 1..Len(keys) : bytesCompare(keys[i], k) >= 0
    THEN CHOOSE i \in 1..Len(keys) :
            /\ bytesCompare(keys[i], k) >= 0
            /\ \A j \in 1..(i - 1) : bytesCompare(keys[j], k) < 0
    ELSE Len(keys) + 1

\* iterateFromKey: the loop starts with c.Next(), so it appends the values of
\* the keys after the cursor's position.
iterateFromKey(b, keys, pos) ==
    [i \in 1..(IF pos >= Len(keys) THEN 0 ELSE Len(keys) - pos) |-> b[keys[pos + i]]]

\* iterateFromBeginning: from c.First(), skipping the keys that compare below
\* parsedTime.
iterateFromBeginning(b, keys, parsedTime) ==
    LET keep == SelectSeq(keys, LAMBDA k : ~(bytesCompare(k, parsedTime) < 0))
    IN  [i \in 1..Len(keep) |-> b[keep[i]]]

\* The body of the db.View transaction of LogsSince.
LogsSinceResult(b, t) ==
    LET parsedTime == KeyOf[t]
        keys       == SortedKeys(DOMAIN b)
    IN  IF parsedTime \notin DOMAIN b
        THEN iterateFromBeginning(b, keys, parsedTime)
        ELSE iterateFromKey(b, keys, Seek(keys, parsedTime))

\* No LogsSince call yet.
NoLogs == [called |-> FALSE, t |-> 0, out |-> <<>>, of |-> {}]

\* boltDBappLogs.Store(t, s)
Store(t, s) ==
    /\ Cardinality(stored) < MaxStores
    /\ db' = Put(db, KeyOf[t], s)
    /\ stored' = stored \cup {[t |-> t, s |-> s]}
    /\ logs' = logs
    /\ UNCHANGED notLog

\* boltDBappLogs.LogsSince(t); the record keeps the call's argument, what it
\* returned and the Store calls that had been made when it ran.
LogsSince(t) ==
    /\ logs' = [called |-> TRUE, t |-> t, out |-> LogsSinceResult(db, t),
                of |-> stored]
    /\ UNCHANGED <<db, stored>>
    /\ UNCHANGED notLog

LogNext ==
    \/ \E t \in Times, s \in Texts : Store(t, s)
    \/ \E t \in Times : LogsSince(t)

RECURSIVE Chronological(_)
\* The texts of a set of entries with distinct timestamps, earliest first.
Chronological(S) ==
    IF S = {} THEN <<>>
    ELSE LET e == CHOOSE x \in S : \A y \in S : x.t <= y.t
         IN  <<e.s>> \o Chronological(S \ {e})

\* No two Store calls of the set share a timestamp.
DistinctTimestamps(S) == \A x \in S, y \in S : x.t = y.t => x = y

\* C1: after Store calls with distinct timestamps, LogsSince(t) returns exactly
\* the stored entries whose timestamp is >= t, in chronological order, whether
\* t is the timestamp of a stored entry or not.
C1_LogsSinceFromT ==
    (logs.called /\ DistinctTimestamps(logs.of))
        => logs.out = Chronological({e \in logs.of : e.t >= logs.t})

\* C10: the key encoding preserves order: of two stored timestamps the
\* earlier one has the bytewise smaller key.
C10_KeyOrderIsTimeOrder ==
    \A x \in stored, y \in stored :
        x.t < y.t => bytesCompare(KeyOf[x.t], KeyOf[y.t]) < 0

(***************************************************************************)
(* PUBLIC KEY TABLES                                                       *)
(***************************************************************************)

\* cipher.PubKey{}: the zero key, for which Null() holds.
NullPK == "pk0"

\* The public keys.
PubKeys == {NullPK, "pkA", "pkB"}

\* The address texts: "host:port", and texts that do not resolve.
AddrTexts ==
    {"10.0.0.2:7777", "10.0.0.2:1", "10.0.0.3:1", "localhost:7777",
     "127.0.0.1:7777", "10.0.0.2", "no.such.host:1"}

\* net.SplitHostPort: the host and the port of an address text; <<>> for a
\* text with no port.
SplitHostPort(a) ==
    CASE a = "10.0.0.2:7777"  -> <<"10.0.0.2", "7777">>
      [] a = "10.0.0.2:1"     -> <<"10.0.0.2", "1">>
      [] a = "10.0.0.3:1"     -> <<"10.0.0.3", "1">>
      [] a = "localhost:7777" -> <<"localhost", "7777">>
      [] a = "127.0.0.1:7777" -> <<"127.0.0.1", "7777">>
      [] a = "no.such.host:1" -> <<"no.such.host", "1">>
      [] OTHER                -> <<>>

\* The resolver: the IP of a host, "" for a host that does not resolve.
LookupIP(h) ==
    CASE h = "localhost"    -> "127.0.0.1"
      [] h = "no.such.host" -> ""
      [] OTHER              -> h

\* net.ResolveTCPAddr("tcp", a): [err, IP, Port].
ResolveTCPAddr(a) ==
    LET hp == SplitHostPort(a)
    IN  IF hp = <<>> THEN [err |-> TRUE, IP |-> "", Port |-> ""]
        ELSE IF LookupIP(hp[1]) = "" THEN [err |-> TRUE, IP |-> "", Port |-> ""]
        ELSE [err |-> FALSE, IP |-> LookupIP(hp[1]), Port |-> hp[2]]

\* (*net.TCPAddr).String(): "IP:Port".
TCPAddrString(addr) ==
    CHOOSE a \in AddrTexts : SplitHostPort(a) = <<addr.IP, addr.Port>>

\* The maps a caller may hand to MemoryPubKeyTable: at most MaxEntries entries.
MaxEntries == 2

EntryMaps ==
    UNION {[K -> AddrTexts] : K \in {K \in SUBSET PubKeys : Cardinality(K) <= MaxEntries}}

\* The IPs the addresses of a map resolve to.
EntryIPs(entries) == {ResolveTCPAddr(entries[k]).IP : k \in DOMAIN entries}

\* memoryPubKeyTable's loop, reverse[addr.IP.String()] = k for k, v in range
\* entries: Go ranges over a map in an unspecified order, so for an IP that
\* several entries share, any of their keys may be written last.
ReverseChoices(entries) ==
    {r \in [EntryIPs(entries) -> DOMAIN entries] :
        \A ip \in EntryIPs(entries) : ResolveTCPAddr(entries[r[ip]]).IP = ip}

\* memoryPubKeyTable panics when an address of the map does not resolve.
memoryPubKeyTablePanics(entries) ==
    \E k \in DOMAIN entries : ResolveTCPAddr(entries[k]).err

\* (*memPKTable).RemoteAddr: Go's map lookup gives "" for a missing key.
RemoteAddr(t, remotePK) ==
    IF remotePK \in DOMAIN t.entries THEN t.entries[remotePK] ELSE ""

\* What a panic of RemotePK is recorded as.
PanicPK == "panic"

\* RemotePK looking the address text itself up in the reverse map, instead of
\* the IP it resolves to.
RemotePKByAddressText(t, address) ==
    LET addr == ResolveTCPAddr(address)
    IN  IF addr.err THEN PanicPK
        ELSE IF address \in DOMAIN t.reverse THEN t.reverse[address]
        ELSE NullPK

\* (*memPKTable).RemotePK: the reverse map at the resolved IP, the zero key
\* when the IP is not in it; panics when the address does not resolve.
RemotePK(t, address) ==
    LET addr == ResolveTCPAddr(address)
    IN  IF addr.err THEN PanicPK
        ELSE IF addr.IP \in DOMAIN t.reverse THEN t.reverse[addr.IP]
        ELSE NullPK

\* (*memPKTable).Count
Count(t) == Cardinality(DOMAIN t.entries)

\* The words of the lines of a table file.
KeyTexts == {"hexA", "hexB"}

\* (*cipher.PubKey).UnmarshalText: [err, pk].
UnmarshalText(w) ==
    CASE w = "hexA" -> [err |-> FALSE, pk |-> "pkA"]
      [] w = "hexB" -> [err |-> FALSE, pk |-> "pkB"]
      [] OTHER      -> [err |-> TRUE, pk |-> NullPK]

\* The lines of a file: a line is its whitespace-separated words (what
\* strings.Fields returns for it) and whether it is longer than the scanner's
\* buffer may grow (bufio.MaxScanTokenSize).
Lines ==
    {[words |-> w, long |-> FALSE] :
        w \in {<<>>, <<"hexA">>, <<"hexA", "10.0.0.2:7777", "x">>,
               <<"zz", "10.0.0.2:7777">>, <<"hexA", "no.such.host:1">>,
               <<"hexA", "10.0.0.2:7777">>, <<"hexA", "localhost:7777">>,
               <<"hexB", "10.0.0.3:1">>, <<"hexB", "10.0.0.2:1">>}}
    \cup {[words |-> <<"xxxx">>, long |-> TRUE]}

\* A file has at most MaxLines lines.
MaxLines == 2

Files == UNION {[1..n -> Lines] : n \in 0..MaxLines}

\* strings.Fields(scanner.Text())
Fields(line) == line.words

RECURSIVE Scan(_)
\* The lines scanner.Scan() delivers: Scan returns false at the first line
\* that does not fit the buffer (ErrTooLong), and the loop ends there.
Scan(file) ==
    IF file = <<>> THEN <<>>
    ELSE IF Head(file).long THEN <<>>
    ELSE <<Head(file)>> \o Scan(Tail(file))

RECURSIVE ReadEntries(_, _)
\* The loop body of FilePubKeyTable over the scanned lines, from `entries`.
ReadEntries(lines, entries) ==
    IF lines = <<>> THEN entries
    ELSE LET components == Fields(Head(lines))
             rest       == Tail(lines)
         IN  IF Len(components) # 2 THEN ReadEntries(rest, entries)
             ELSE IF UnmarshalText(components[1]).err THEN ReadEntries(rest, entries)
             ELSE IF ResolveTCPAddr(components[2]).err THEN ReadEntries(rest, entries)
             ELSE ReadEntries(rest,
                     Put(entries, UnmarshalText(components[1]).pk,
                         TCPAddrString(ResolveTCPAddr(components[2]))))

\* No table constructed yet, no lookup made yet.
NoTable == [state |-> "none", by |-> "", src |-> <<>>, entries |-> <<>>, reverse |-> <<>>]
NoCall == [op |-> "", arg |-> "", res |-> ""]

\* MemoryPubKeyTable(entries)
MemoryPubKeyTable(entries) ==
    /\ tbl.state = "none"
    /\ IF memoryPubKeyTablePanics(entries)
       THEN tbl' = [NoTable EXCEPT !.state = "panic", !.by = "memory"]
       ELSE \E r \in ReverseChoices(entries) :
               tbl' = [state |-> "ok", by |-> "memory", src |-> <<>>,
                       entries |-> entries, reverse |-> r]
    /\ call' = call
    /\ UNCHANGED notTbl

\* FilePubKeyTable(dbFile), for a file that opens, with the given lines.
FilePubKeyTable(file) ==
    /\ tbl.state = "none"
    /\ LET entries == ReadEntries(Scan(file), <<>>)
       IN  IF memoryPubKeyTablePanics(entries)
           THEN tbl' = [NoTable EXCEPT !.state = "panic", !.by = "file", !.src = file]
           ELSE \E r \in ReverseChoices(entries) :
                   tbl' = [state |-> "ok", by |-> "file", src |-> file,
                           entries |-> entries, reverse |-> r]
    /\ call' = call
    /\ UNCHANGED notTbl

\* t.RemotePK(address)
RemotePKCall(address) ==
    /\ tbl.state = "ok"
    /\ call' = [op |-> "RemotePK", arg |-> address, res |-> RemotePK(tbl, address)]
    /\ tbl' = tbl
    /\ UNCHANGED notTbl

\* t.RemoteAddr(remotePK)
RemoteAddrCall(remotePK) ==
    /\ tbl.state = "ok"
    /\ call' = [op |-> "RemoteAddr", arg |-> remotePK, res |-> RemoteAddr(tbl, remotePK)]
    /\ tbl' = tbl
    /\ UNCHANGED notTbl

\* t.Count()
CountCall ==
    /\ tbl.state = "ok"
    /\ call' = [op |-> "Count", arg |-> "", res |-> Count(tbl)]
    /\ tbl' = tbl
    /\ UNCHANGED notTbl

TblNext ==
    \/ \E entries \in EntryMaps : MemoryPubKeyTable(entries)
    \/ \E file \in Files : FilePubKeyTable(file)
    \/ \E address \in AddrTexts : RemotePKCall(address)
    \/ \E remotePK \in PubKeys : RemoteAddrCall(remotePK)
    \/ CountCall

\* The addresses that resolve.
WellFormed == {a \in AddrTexts : ~ResolveTCPAddr(a).err}

\* The IP an address resolves to.
HostIP(a) == ResolveTCPAddr(a).IP

\* C2: for a table built by MemoryPubKeyTable, RemotePK gives the key of every
\* entry whose host IP no other entry shares, the zero key for every
\* well-formed address whose host IP is the host of no entry, and the same
\* result for two addresses with the same host IP.
C2_RemotePKByHost ==
    (tbl.state = "ok" /\ tbl.by = "memory") =>
        /\ \A k \in DOMAIN tbl.entries :
              (\A o \in DOMAIN tbl.entries :
                  HostIP(tbl.entries[o]) = HostIP(tbl.entries[k]) => o = k)
              => RemotePK(tbl, tbl.entries[k]) = k
        /\ \A a \in WellFormed :
              (\A k \in DOMAIN tbl.entries : HostIP(tbl.entries[k]) # HostIP(a))
              => RemotePK(tbl, a) = NullPK
        /\ \A a \in WellFormed, b \in WellFormed :
              HostIP(a) = HostIP(b) => RemotePK(tbl, a) = RemotePK(tbl, b)
        /\ call.op = "RemotePK" /\ call.arg \in WellFormed
              => call.res \in (DOMAIN tbl.entries) \cup {NullPK}

\* C2's case: the table {pkB: 10.0.0.2:7777} asked for 10.0.0.3:1 gave the
\* zero key.
C2_Witness ==
    /\ tbl.state = "ok" /\ tbl.by = "memory"
    /\ tbl.entries = [k \in {"pkB"} |-> "10.0.0.2:7777"]
    /\ RemotePK(tbl, "10.0.0.2:7777") = "pkB"
    /\ call = [op |-> "RemotePK", arg |-> "10.0.0.3:1", res |-> NullPK]

\* A line is well-formed: two fields, a key that parses, an address that
\* resolves.
WellFormedLine(line) ==
    /\ Len(line.words) = 2
    /\ ~UnmarshalText(line.words[1]).err
    /\ ~ResolveTCPAddr(line.words[2]).err

\* The table the well-formed lines of a file describe, the last line winning
\* for a repeated key, each address in its resolved form.
FileEntries(file) ==
    LET good == {i \in 1..Len(file) : WellFormedLine(file[i])}
        keys == {UnmarshalText(file[i].words[1]).pk : i \in good}
        last(k) == CHOOSE i \in good :
                      /\ UnmarshalText(file[i].words[1]).pk = k
                      /\ \A j \in good :
                            UnmarshalText(file[j].words[1]).pk = k => j <= i
    IN  [k \in keys |-> TCPAddrString(ResolveTCPAddr(file[last(k)].words[2]))]

\* C8: for any file content FilePubKeyTable succeeds, and the table holds
\* exactly the pairs of the well-formed lines, Count being the number of
\* distinct well-formed keys.
C8_FileTableHoldsWellFormedLines ==
    tbl.by = "file" =>
        /\ tbl.state = "ok"
        /\ tbl.entries = FileEntries(tbl.src)
        /\ Count(tbl) = Cardinality(DOMAIN FileEntries(tbl.src))

(***************************************************************************)
(* TCP TRANSPORT FACTORY                                                   *)
(***************************************************************************)

\* Errors are the texts they are made of; nil is the empty one. Two errors
\* are the same error value only if they are made the same way.
NilErr == <<>>

\* var ErrUnknownRemote = errors.New("unknown remote")
ErrUnknownRemote == <<"unknown remote">>

\* fmt.Errorf("error: %v, raddr: %v, rpk: %v", ErrUnknownRemote, raddr, rpk)
AcceptUnknownErr(raddr, rpk) ==
    <<"error: ", ErrUnknownRemote[1], ", raddr: ", raddr, ", rpk: ", rpk>>

\* The errors of the net package: AcceptTCP on a closed listener, a failed
\* ResolveTCPAddr, a failed DialTCP.
ErrClosed == <<"use of closed network connection">>
ErrResolve == <<"unknown host or missing port">>
ErrConnect == <<"connect failed">>

\* The translation table the factory was constructed with.
FactoryEntries == [k \in {"pkB"} |-> "10.0.0.2:7777"]

pkt ==
    [entries |-> FactoryEntries,
     reverse |-> CHOOSE r \in ReverseChoices(FactoryEntries) : TRUE]

\* The addresses remote hosts connect from, and the keys the node dials.
InboundAddrs == {"10.0.0.2:1", "10.0.0.3:1"}
DialKeys == {"pkA", "pkB"}

\* At most MaxConns connections are created.
MaxConns == 3

\* No connection / no transport.
NoConn == 0

IdleAccept == [pc |-> "idle", conn |-> NoConn, tr |-> NoConn, err |-> NilErr]
IdleDial == [pc |-> "idle", remote |-> NullPK, conn |-> NoConn, tr |-> NoConn, err |-> NilErr]

\* The inbound connections completed by the kernel and not yet accepted.
Backlog == {i \in 1..Len(conns) : conns[i].state = "backlog"}

\* A remote host connects to the listener.
Connect(raddr) ==
    /\ ~lclosed
    /\ Len(conns) < MaxConns
    /\ conns' = Append(conns, [dir |-> "in", raddr |-> raddr,
                               state |-> "backlog", owner |-> "none"])
    /\ UNCHANGED <<lclosed, ctxDone, acc, dial>>
    /\ UNCHANGED notTcp

\* The caller cancels the context.
Cancel ==
    /\ ~ctxDone
    /\ ctxDone' = TRUE
    /\ UNCHANGED <<conns, lclosed, acc, dial>>
    /\ UNCHANGED notTcp

\* TCPFactory.Accept is called: it blocks in f.l.AcceptTCP().
AcceptCall ==
    /\ acc.pc # "blocked"
    /\ acc' = [IdleAccept EXCEPT !.pc = "blocked"]
    /\ UNCHANGED <<conns, lclosed, ctxDone, dial>>
    /\ UNCHANGED notTcp

\* AcceptTCP returns a connection and Accept runs to its return: the remote
\* key is looked up by the connection's remote address.
AcceptReturn ==
    /\ acc.pc = "blocked"
    /\ Backlog # {}
    /\ LET c     == CHOOSE i \in Backlog : \A j \in Backlog : i <= j
           raddr == conns[c].raddr
           rpk   == RemotePK(pkt, raddr)
       IN  IF rpk = NullPK
           THEN /\ conns' = [conns EXCEPT ![c].state = "open"]
                /\ acc' = [pc |-> "done", conn |-> c, tr |-> NoConn,
                           err |-> AcceptUnknownErr(raddr, rpk)]
           ELSE /\ conns' = [conns EXCEPT ![c].state = "open",
                                          ![c].owner = "transport"]
                /\ acc' = [pc |-> "done", conn |-> c, tr |-> c, err |-> NilErr]
    /\ UNCHANGED <<lclosed, ctxDone, dial>>
    /\ UNCHANGED notTcp

\* AcceptTCP returns an error (the listener is closed): Accept returns it.
AcceptFails ==
    /\ acc.pc = "blocked"
    /\ lclosed
    /\ acc' = [pc |-> "done", conn |-> NoConn, tr |-> NoConn, err |-> ErrClosed]
    /\ UNCHANGED <<conns, lclosed, ctxDone, dial>>
    /\ UNCHANGED notTcp

\* TCPFactory.Dial(ctx, remote) up to net.DialTCP: an unknown key or an
\* address that does not resolve returns at once; otherwise a socket is
\* created and the call blocks in DialTCP.  The listener's own address
\* always resolves.
DialCall(remote) ==
    /\ dial.pc # "connecting"
    /\ LET raddr == RemoteAddr(pkt, remote)
       IN  IF raddr = ""
           THEN /\ dial' = [pc |-> "done", remote |-> remote, conn |-> NoConn,
                            tr |-> NoConn, err |-> ErrUnknownRemote]
                /\ conns' = conns
           ELSE IF ResolveTCPAddr(raddr).err
           THEN /\ dial' = [pc |-> "done", remote |-> remote, conn |-> NoConn,
                            tr |-> NoConn, err |-> ErrResolve]
                /\ conns' = conns
           ELSE /\ Len(conns) < MaxConns
                /\ conns' = Append(conns, [dir |-> "out", raddr |-> raddr,
                                           state |-> "connecting", owner |-> "none"])
                /\ dial' = [pc |-> "connecting", remote |-> remote,
                            conn |-> Len(conns) + 1, tr |-> NoConn, err |-> NilErr]
    /\ UNCHANGED <<lclosed, ctxDone, acc>>
    /\ UNCHANGED notTcp

\* net.DialTCP returns: connected, and Dial returns the transport; or failed
\* (refused, timed out), the socket closed by the net package.
DialTCPReturns(ok) ==
    /\ dial.pc = "connecting"
    /\ IF ok
       THEN /\ conns' = [conns EXCEPT ![dial.conn].state = "open",
                                      ![dial.conn].owner = "transport"]
            /\ dial' = [dial EXCEPT !.pc = "done", !.tr = dial.conn]
       ELSE /\ conns' = [conns EXCEPT ![dial.conn].state = "closed"]
            /\ dial' = [dial EXCEPT !.pc = "done", !.err = ErrConnect]
    /\ UNCHANGED <<lclosed, ctxDone, acc>>
    /\ UNCHANGED notTcp

\* TCPFactory.Close: the listener is closed, and with it the connections
\* nobody accepted.
FactoryClose ==
    /\ ~lclosed
    /\ lclosed' = TRUE
    /\ conns' = [i \in 1..Len(conns) |->
                    IF conns[i].state = "backlog"
                    THEN [conns[i] EXCEPT !.state = "closed"] ELSE conns[i]]
    /\ UNCHANGED <<ctxDone, acc, dial>>
    /\ UNCHANGED notTcp

\* The caller closes a transport it was given (TCPTransport embeds the
\* connection, so Close is the connection's).
TransportClose(c) ==
    /\ conns[c].state = "open"
    /\ conns[c].owner = "transport"
    /\ conns' = [conns EXCEPT ![c].state = "closed"]
    /\ UNCHANGED <<lclosed, ctxDone, acc, dial>>
    /\ UNCHANGED notTcp

TcpNext ==
    \/ \E raddr \in InboundAddrs : Connect(raddr)
    \/ Cancel
    \/ AcceptCall
    \/ AcceptReturn
    \/ AcceptFails
    \/ \E remote \in DialKeys : DialCall(remote)
    \/ \E ok \in BOOLEAN : DialTCPReturns(ok)
    \/ FactoryClose
    \/ \E c \in 1..Len(conns) : TransportClose(c)

\* C3: Dial for a key with no address, and Accept of a connection whose
\* remote address resolves to no key, return the error ErrUnknownRemote and
\* no transport; Dial then returns before any socket is opened.
C3_UnknownRemoteError ==
    /\ (acc.pc = "done" /\ acc.conn # NoConn
            /\ RemotePK(pkt, conns[acc.conn].raddr) = NullPK)
         => (acc.err = ErrUnknownRemote /\ acc.tr = NoConn)
    /\ (dial.pc = "done" /\ RemoteAddr(pkt, dial.remote) = "")
         => (dial.err = ErrUnknownRemote /\ dial.tr = NoConn /\ dial.conn = NoConn)

\* C7: a call of Accept or Dial that is blocked returns once the context is
\* cancelled, even if no connection completes.
C7_CancelUnblocks ==
    /\ (ctxDone /\ acc.pc = "blocked") ~> (acc.pc = "done")
    /\ (ctxDone /\ dial.pc = "connecting") ~> (dial.pc = "done")

\* C9: every connection the factory opened or accepted is owned by a
\* transport that was returned or is closed; the connection for which Accept
\* reported an unknown remote is closed.
C9_NoLeakedConnection ==
    /\ \A i \in 1..Len(conns) :
          conns[i].state = "open" => conns[i].owner = "transport"
    /\ (acc.pc = "done" /\ acc.conn # NoConn /\ acc.tr = NoConn)
          => conns[acc.conn].state = "closed"

(***************************************************************************)
(* NODE, MOCK ROUTER, MOCK EXECUTER                                        *)
(***************************************************************************)

\* The goroutines that call SpawnApp or ServeApp, and those that call Close.
NumProcs == 2
NumClosers == 2

Procs == 1..NumProcs

\* A nil channel.
NilChan == 0

\* The SpawnApp calls of TestNodeSpawnAppValidations, and the port of
\* TestNodeSpawnApp for calls of ServeApp.
SpawnCases == {<<"skychat", 2>>, <<"skychat", 10>>, <<"foo", 11>>}
ServePorts == {10}

\* The ports no app may bind.
ReservedPorts == {2}

\* The errors of SpawnApp, and nil.
NoErr == <<>>
ErrReservedPort(port) == <<"can't bind to reserved port ", port>>
ErrAlreadyStarted(app) == <<"app ", app, " is already started">>
ErrRunExecutable(err) == <<"failed to run app executable: ", err>>

\* startedApps of TestNodeSpawnAppValidations: {"skychat": {conn, 10}}.
InitialApps == [a \in {"skychat"} |-> [conn |-> "conn", port |-> 10]]

\* A caller that has not called yet. `early` records, when the caller enters
\* router.ServeApp, that no Close had returned by then.
IdleProc ==
    [pc |-> "idle", kind |-> "", app |-> "", port |-> 0, ch |-> NilChan,
     ret |-> NoErr, early |-> FALSE]

\* Some call of Close has returned.
CloseReturned == closers.done > 0

\* A goroutine that acquires the router's mutex sees every write made under
\* it before: its view shrinks to the current value.
Synced(p) == [view EXCEPT ![p] = <<errChan>>]

\* The view of a goroutine that has no unlocked read ahead of it before it
\* next takes the mutex (or returns) is not kept.
NoView == <<NilChan>>

\* The goroutines with an unlocked read of r.errChan ahead.
Reading(p) == procs[p].pc \in {"check", "recv"}

\* The binding of an app is removed.
Unbind(app) == [a \in (DOMAIN startedApps) \ {app} |-> startedApps[a]]

\* The goroutines are interchangeable: they make their calls in the order of
\* their numbers.
NextCaller(p) ==
    /\ procs[p].pc = "idle"
    /\ \A q \in Procs : q < p => procs[q].pc # "idle"

\* A SpawnApp that omits the reserved-port validation.
SpawnAppMissingPortCheck(p, app, port) ==
    /\ ~panicked
    /\ NextCaller(p)
    /\ IF app \in DOMAIN startedApps
       THEN /\ procs' = [procs EXCEPT ![p] = [IdleProc EXCEPT !.pc = "done",
                             !.kind = "spawn", !.app = app, !.port = port,
                             !.ret = ErrAlreadyStarted(app)]]
            /\ startedApps' = startedApps
       ELSE /\ procs' = [procs EXCEPT ![p] = [IdleProc EXCEPT !.pc = "exec",
                             !.kind = "spawn", !.app = app, !.port = port]]
            /\ startedApps' = [a \in (DOMAIN startedApps) \cup {app} |->
                                  IF a = app THEN [conn |-> <<"conn", p>>, port |-> port]
                                  ELSE startedApps[a]]
    /\ UNCHANGED <<ports, didStart, didClose, errChan, chans, view, panicked,
                   exec, closers, startPc>>
    /\ UNCHANGED notNode

\* Node.SpawnApp(config, nil) up to the start of the executable: the port
\* and the app are validated and the app is bound.
SpawnApp(p, app, port) ==
    /\ ~panicked
    /\ NextCaller(p)
    /\ IF port \in ReservedPorts
       THEN /\ procs' = [procs EXCEPT ![p] = [IdleProc EXCEPT !.pc = "done",
                             !.kind = "spawn", !.app = app, !.port = port,
                             !.ret = ErrReservedPort(port)]]
            /\ startedApps' = startedApps
       ELSE IF app \in DOMAIN startedApps
       THEN /\ procs' = [procs EXCEPT ![p] = [IdleProc EXCEPT !.pc = "done",
                             !.kind = "spawn", !.app = app, !.port = port,
                             !.ret = ErrAlreadyStarted(app)]]
            /\ startedApps' = startedApps
       ELSE /\ procs' = [procs EXCEPT ![p] = [IdleProc EXCEPT !.pc = "exec",
                             !.kind = "spawn", !.app = app, !.port = port]]
            /\ startedApps' = [a \in (DOMAIN startedApps) \cup {app} |->
                                  IF a = app THEN [conn |-> <<"conn", p>>, port |-> port]
                                  ELSE startedApps[a]]
    /\ UNCHANGED <<ports, didStart, didClose, errChan, chans, view, panicked,
                   exec, closers, startPc>>
    /\ UNCHANGED notNode

\* SpawnApp goes on: node.executer.Start(cmd), here MockExecuter.Start. On an
\* error SpawnApp returns it; otherwise it calls router.ServeApp.
ExecStart(p) ==
    /\ ~panicked
    /\ procs[p].pc = "exec"
    /\ IF exec.stopCh
       THEN /\ exec' = exec
            /\ procs' = [procs EXCEPT ![p].pc = "done",
                            ![p].ret = ErrRunExecutable("already executing")]
            /\ startedApps' = Unbind(procs[p].app)
       ELSE IF exec.err # ""
       THEN /\ exec' = [exec EXCEPT !.stopCh = TRUE]
            /\ procs' = [procs EXCEPT ![p].pc = "done",
                            ![p].ret = ErrRunExecutable(exec.err)]
            /\ startedApps' = Unbind(procs[p].app)
       ELSE /\ exec' = [exec EXCEPT !.stopCh = TRUE,
                                    !.cmds = Append(exec.cmds, procs[p].app)]
            /\ procs' = [procs EXCEPT ![p].pc = "serve",
                                      ![p].early = ~CloseReturned]
            /\ startedApps' = startedApps
    /\ UNCHANGED <<ports, didStart, didClose, errChan, chans, view, panicked,
                   closers, startPc>>
    /\ UNCHANGED notNode

\* A goroutine calls router.ServeApp(conn, port, conf) itself.
ServeAppCall(p, port) ==
    /\ ~panicked
    /\ NextCaller(p)
    /\ procs' = [procs EXCEPT ![p] = [IdleProc EXCEPT !.pc = "serve",
                     !.kind = "serve", !.port = port, !.early = ~CloseReturned]]
    /\ UNCHANGED <<ports, didStart, didClose, errChan, chans, view, panicked,
                   startedApps, exec, closers, startPc>>
    /\ UNCHANGED notNode

\* mockRouter.ServeApp, the first locked section: the port is appended.
ServeAppend(p) ==
    /\ ~panicked
    /\ procs[p].pc = "serve"
    /\ ports' = Append(ports, procs[p].port)
    /\ view' = Synced(p)
    /\ procs' = [procs EXCEPT ![p].pc = "check"]
    /\ UNCHANGED <<didStart, didClose, errChan, chans, panicked, startedApps,
                   exec, closers, startPc>>
    /\ UNCHANGED notNode

\* mockRouter.ServeApp, `if r.errChan == nil`, read without the mutex: the
\* read sees the value of the goroutine's last synchronisation or a later one.
ServeCheck(p) ==
    /\ ~panicked
    /\ procs[p].pc = "check"
    /\ \E i \in 1..Len(view[p]) :
          IF view[p][i] = NilChan
          THEN /\ view' = [view EXCEPT ![p] = NoView]
               /\ procs' = [procs EXCEPT ![p].pc = "make"]
          ELSE /\ view' = [view EXCEPT ![p] = SubSeq(view[p], i, Len(view[p]))]
               /\ procs' = [procs EXCEPT ![p].pc = "recv"]
    /\ UNCHANGED <<ports, didStart, didClose, errChan, chans, panicked,
                   startedApps, exec, closers, startPc>>
    /\ UNCHANGED notNode

\* mockRouter.ServeApp, the second locked section: r.errChan = make(chan error).
ServeMake(p) ==
    /\ ~panicked
    /\ procs[p].pc = "make"
    /\ chans' = Append(chans, "open")
    /\ errChan' = Len(chans) + 1
    /\ view' = [q \in Procs |->
                   IF q = p THEN <<Len(chans) + 1>>
                   ELSE IF Reading(q) THEN Append(view[q], Len(chans) + 1)
                   ELSE view[q]]
    /\ procs' = [procs EXCEPT ![p].pc = "recv"]
    /\ UNCHANGED <<ports, didStart, didClose, panicked, startedApps, exec,
                   closers, startPc>>
    /\ UNCHANGED notNode

\* mockRouter.ServeApp, `<-r.errChan`: the field is read, without the mutex,
\* and the goroutine blocks on the channel read.
ServeRecv(p) ==
    /\ ~panicked
    /\ procs[p].pc = "recv"
    /\ \E i \in 1..Len(view[p]) :
          /\ view' = [view EXCEPT ![p] = NoView]
          /\ procs' = [procs EXCEPT ![p].pc = "blocked", ![p].ch = view[p][i]]
    /\ UNCHANGED <<ports, didStart, didClose, errChan, chans, panicked,
                   startedApps, exec, closers, startPc>>
    /\ UNCHANGED notNode

\* The receive returns, the channel being closed: ServeApp returns nil, and
\* the SpawnApp that called it unbinds the app and returns.
ServeReturn(p) ==
    /\ ~panicked
    /\ procs[p].pc = "blocked"
    /\ procs[p].ch # NilChan
    /\ chans[procs[p].ch] = "closed"
    /\ procs' = [procs EXCEPT ![p].pc = "done", ![p].ch = NilChan,
                                ![p].early = FALSE]
    /\ startedApps' = IF procs[p].kind = "spawn" THEN Unbind(procs[p].app)
                      ELSE startedApps
    /\ UNCHANGED <<ports, didStart, didClose, errChan, chans, view, panicked,
                   exec, closers, startPc>>
    /\ UNCHANGED notNode

\* mockRouter.Close is called (at most NumClosers times): r.didClose = true.
CloseCall ==
    /\ ~panicked
    /\ closers.locking + closers.done < NumClosers
    /\ didClose' = TRUE
    /\ closers' = [closers EXCEPT !.locking = @ + 1]
    /\ UNCHANGED <<ports, didStart, errChan, chans, view, panicked,
                   startedApps, exec, procs, startPc>>
    /\ UNCHANGED notNode

\* mockRouter.Close, the locked section: close(r.errChan) when it is not nil;
\* closing a closed channel panics. Then Close returns nil.
CloseLocked ==
    /\ ~panicked
    /\ closers.locking > 0
    /\ IF errChan = NilChan
       THEN /\ chans' = chans
            /\ panicked' = FALSE
            /\ closers' = [locking |-> closers.locking - 1, done |-> closers.done + 1]
       ELSE IF chans[errChan] = "closed"
       THEN /\ chans' = chans
            /\ panicked' = TRUE
            /\ closers' = closers
       ELSE /\ chans' = [chans EXCEPT ![errChan] = "closed"]
            /\ panicked' = FALSE
            /\ closers' = [locking |-> closers.locking - 1, done |-> closers.done + 1]
    /\ UNCHANGED <<ports, didStart, didClose, errChan, view, startedApps,
                   exec, procs, startPc>>
    /\ UNCHANGED notNode

\* node.Start() is called in its goroutine (TestNodeStartClose).
StartCall ==
    /\ ~panicked
    /\ startPc = "idle"
    /\ startPc' = "serving"
    /\ UNCHANGED <<ports, didStart, didClose, errChan, chans, view, panicked,
                   startedApps, exec, procs, closers>>
    /\ UNCHANGED notNode

\* mockRouter.Serve: r.didStart = true; return nil, and Start returns.
Serve ==
    /\ ~panicked
    /\ startPc = "serving"
    /\ didStart' = TRUE
    /\ startPc' = "done"
    /\ UNCHANGED <<ports, didClose, errChan, chans, view, panicked,
                   startedApps, exec, procs, closers>>
    /\ UNCHANGED notNode

NodeNext ==
    \/ \E p \in Procs, cs \in SpawnCases : SpawnApp(p, cs[1], cs[2])
    \/ \E p \in Procs : ExecStart(p)
    \/ \E p \in Procs, port \in ServePorts : ServeAppCall(p, port)
    \/ \E p \in Procs : ServeAppend(p)
    \/ \E p \in Procs : ServeCheck(p)
    \/ \E p \in Procs : ServeMake(p)
    \/ \E p \in Procs : ServeRecv(p)
    \/ \E p \in Procs : ServeReturn(p)
    \/ CloseCall
    \/ CloseLocked
    \/ StartCall
    \/ Serve

\* A caller is inside router.ServeApp.
InServeApp(p) == procs[p].pc \in {"serve", "check", "make", "recv", "blocked"}

\* A SpawnApp call was rejected by the validation.
Rejected(pr) ==
    /\ pr.pc = "done"
    /\ pr.kind = "spawn"
    /\ pr.ret \in {ErrReservedPort(pr.port), ErrAlreadyStarted(pr.app)}

\* C4: a SpawnApp call for a reserved port, or for an app that is already
\* started, returns the matching error at once; it leaves the router's
\* ports, the executer and the started apps as they were, and the call never
\* reaches the executer or router.ServeApp afterwards.
C4_RejectedBeforeAnyCall ==
    [][\A p \in Procs :
        /\ (procs[p].pc = "idle" /\ procs'[p].kind = "spawn"
               /\ (procs'[p].port \in ReservedPorts
                     \/ procs'[p].app \in DOMAIN startedApps))
            => /\ Rejected(procs'[p])
               /\ procs'[p].port \in ReservedPorts
                     => procs'[p].ret = ErrReservedPort(procs'[p].port)
               /\ UNCHANGED <<ports, exec, startedApps, errChan, chans>>
        /\ Rejected(procs[p]) => procs'[p] = procs[p]
      ]_vars

\* C4's case: one call was rejected for the reserved port 2 and one for the
\* started app skychat, whose binding is the original one.
C4_Witness ==
    /\ \E p \in Procs : Rejected(procs[p]) /\ procs[p].ret = ErrReservedPort(2)
    /\ \E p \in Procs : Rejected(procs[p]) /\ procs[p].ret = ErrAlreadyStarted("skychat")
    /\ startedApps = InitialApps
    /\ ports = <<>>
    /\ exec.cmds = <<>>

\* C5: Close never panics, in whatever state and however often it is called.
C5_CloseNeverPanics == ~panicked

\* C6: once a Close has returned, every call of ServeApp that began before
\* it returned (blocked already or not) returns, and Start returns.
C6_CloseUnblocksServeApp ==
    /\ \A p \in Procs :
          (CloseReturned /\ InServeApp(p) /\ procs[p].early)
              ~> (~InServeApp(p) \/ panicked)
    /\ (CloseReturned /\ startPc = "serving") ~> (startPc = "done" \/ panicked)

(***************************************************************************)
(* SPECIFICATIONS                                                          *)
(***************************************************************************)

\* Every piece starts in its initial state.
Init ==
    /\ db = <<>>
    /\ stored = {}
    /\ logs = NoLogs
    /\ tbl = NoTable
    /\ call = NoCall
    /\ conns = <<>>
    /\ lclosed = FALSE
    /\ ctxDone = FALSE
    /\ acc = IdleAccept
    /\ dial = IdleDial
    /\ ports = <<>>
    /\ didStart = FALSE
    /\ didClose = FALSE
    /\ errChan = NilChan
    /\ chans = <<>>
    /\ view = [p \in Procs |-> <<NilChan>>]
    /\ panicked = FALSE
    /\ startedApps = InitialApps
    /\ exec = [err |-> "", stopCh |-> FALSE, cmds |-> <<>>]
    /\ procs = [p \in Procs |-> IdleProc]
    /\ closers = [locking |-> 0, done |-> 0]
    /\ startPc = "idle"

LogSpec == Init /\ [][LogNext]_vars

TableSpec == Init /\ [][TblNext]_vars

TCPSpec == Init /\ [][TcpNext]_vars

\* A blocked call goes on when what it waits for has happened: AcceptTCP
\* returns when a connection is in the backlog or the listener is closed, and
\* the kernel ends every connection attempt, with success or failure.
FairTCPSpec ==
    /\ TCPSpec
    /\ WF_vars(AcceptReturn)
    /\ WF_vars(AcceptFails)
    /\ WF_vars(\E ok \in BOOLEAN : DialTCPReturns(ok))

NodeSpec == Init /\ [][NodeNext]_vars

\* Every goroutine that can take its next step takes it; whether and when
\* SpawnApp, ServeApp, Close and Start are called is up to the callers.
FairNodeSpec ==
    /\ NodeSpec
    /\ \A p \in Procs :
          /\ WF_vars(ExecStart(p))
          /\ WF_vars(ServeAppend(p))
          /\ WF_vars(ServeCheck(p))
          /\ WF_vars(ServeMake(p))
          /\ WF_vars(ServeRecv(p))
          /\ WF_vars(ServeReturn(p))
    /\ WF_vars(CloseLocked)
    /\ WF_vars(Serve)

=============================================================================
